---- MODULE Spec2Model ----
(***************************************************************************)
(* A model of src/app.py, the Streamlit script of the GPT travel guide.    *)
(*                                                                         *)
(* Streamlit executes the script top to bottom once per user interaction   *)
(* (a "script run"); st.session_state and the widget values survive from   *)
(* one run to the next, st.experimental_rerun() abandons the current run   *)
(* and starts another one at once.  An action of the model is one user     *)
(* interaction together with every run it causes.                          *)
(*                                                                         *)
(* Text is modelled as a sequence of tokens: the punctuation the code      *)
(* looks at ("[", "]", ",", "'", " ", "_") and whole words.  The two       *)
(* remote services (text completion, geocoding) are inputs: the text and   *)
(* the per-city answers are chosen nondeterministically.                   *)
(*                                                                         *)
(* The model describes the control flow of the script from line 211 on.    *)
(* It does not describe three defects that stop the file as written        *)
(* before or at that flow: the import of typing.Object (line 13), the      *)
(* annotation Tuple(...) (line 136) and the call show_country_info()       *)
(* without its argument (line 249).  show_country_info writes only to the  *)
(* page and is modelled as a step without effect on the state.             *)
(***************************************************************************)
EXTENDS Integers, Sequences, FiniteSets, TLC

\* longest city list a generated text holds in the model
MaxCities == 2

\* longest city list of a text followed through the pipeline
MaxPipeCities == 3

\* default of the "Number of cities" input, and its min_value
DefaultNumDays == 5
MinNumDays == 3

VARIABLES
  count,      \* st.session_state.count
  disabled,   \* st.session_state.disabled
  request,    \* the values of the four input widgets
  files,      \* the working directory: file name -> rows of the csv file
  run,        \* what the last script run rendered and did
  slist,      \* the value held by the DraggableList component
  event,      \* the last user interaction
  before,     \* count, disabled and view when that interaction arrived
  session,    \* two sessions sharing the directory: where each is in its run
  pipe        \* one request followed from the generated text to the map

uivars == <<count, disabled, request, run, slist, event, before>>

vars == <<count, disabled, request, files, run, slist, event, before,
          session, pipe>>

----------------------------------------------------------------------------
(* Text helpers: str.replace, str.split, str.strip on token sequences *)

\* s.replace(ch, "")
Remove(s, ch) == SelectSeq(s, LAMBDA c : c # ch)

RECURSIVE SplitFrom(_, _, _, _)
SplitFrom(s, sep, i, cur) ==
  IF i > Len(s) THEN <<cur>>
  ELSE IF s[i] = sep THEN <<cur>> \o SplitFrom(s, sep, i + 1, <<>>)
  ELSE SplitFrom(s, sep, i + 1, Append(cur, s[i]))

\* s.split(sep): never empty, "".split(",") is [""]
Split(s, sep) == SplitFrom(s, sep, 1, <<>>)

RECURSIVE LStrip(_)
LStrip(s) == IF s # <<>> /\ Head(s) = " " THEN LStrip(Tail(s)) ELSE s

RECURSIVE RStrip(_)
RStrip(s) ==
  IF s # <<>> /\ s[Len(s)] = " " THEN RStrip(SubSeq(s, 1, Len(s) - 1)) ELSE s

\* s.strip()
Strip(s) == RStrip(LStrip(s))

----------------------------------------------------------------------------
(* Python values that end up in a Location *)

\* a str
Str(s) == [t |-> "str", v |-> s]

\* float('nan'), what pandas reads for a missing field
NaN == [t |-> "float", v |-> <<"nan">>]

\* {'name': ..., 'coordinates': [lat, lon]}
Location(name, coord) == [name |-> name, coordinates |-> coord]

----------------------------------------------------------------------------
(* The request and the cache file name *)

Requests ==
  { [country |-> <<"Portugal">>, first_city |-> <<"Lisbon">>,
     last_city |-> <<"Porto">>, num_days |-> n] :
       n \in {MinNumDays, DefaultNumDays} }

DefaultRequest ==
  [country |-> <<"Portugal">>, first_city |-> <<"Lisbon">>,
   last_city |-> <<"Porto">>, num_days |-> DefaultNumDays]

\* code = f"{country}_{first_city}_{last_city}_{num_days}", plus ".csv"
code(req) ==
  req.country \o <<"_">> \o req.first_city \o <<"_">> \o req.last_city
    \o <<"_">> \o <<ToString(req.num_days)>> \o <<".csv">>

----------------------------------------------------------------------------
(* The remote services, as inputs *)

\* a coordinate pair [latitude, longitude]; numbers are whole in the model
Coords == { <<38, -9>>, <<41, -8>> }

\* get_coordinates(country, city) either raises or returns a pair
Raised == [ok |-> FALSE, coord |-> <<0, 0>>]
Returned(c) == [ok |-> TRUE, coord |-> c]

\* the pairs the geocoder holds for a city: one for each known name, either
\* of the two for any other text
Gazetteer(city) ==
  IF city = <<"Lisbon">> THEN { <<38, -9>> }
  ELSE IF city = <<"Porto">> THEN { <<41, -8>> }
  ELSE Coords

\* get_coordinates(country, city): the outcomes of one call
get_coordinates(city) ==
  {Raised} \cup { Returned(c) : c \in Gazetteer(city) }

\* the outcomes of the calls process_itinerary makes, one per extracted city
GeoAnswers(cities) ==
  { g \in [1..Len(cities) -> {Raised} \cup { Returned(c) : c \in Coords }] :
      \A i \in 1..Len(cities) : g[i] \in get_coordinates(cities[i]) }

RECURSIVE Join(_, _)
Join(items, quoted) ==
  IF items = <<>> THEN <<>>
  ELSE LET w == IF quoted THEN <<"'">> \o Head(items) \o <<"'">>
                ELSE Head(items)
       IN IF Len(items) = 1 THEN w
          ELSE w \o <<",", " ">> \o Join(Tail(items), quoted)

\* a completion in the requested format, "[city1, city2, ...]", with or
\* without quotes around the names
Formatted(items, quoted) == <<" ", "[">> \o Join(items, quoted) \o <<"]">>

SeqsUpTo(S, m, n) == UNION { [1..k -> S] : k \in m..n }

\* generate_itinerary: the texts the completion service may return
generate_itinerary(words, minlen, maxlen, quotes) ==
  { Formatted(items, q) :
      items \in SeqsUpTo({ <<w>> : w \in words }, minlen, maxlen),
      q \in quotes }

----------------------------------------------------------------------------
(* process_itinerary *)

\* lines 148-149: the extracted city names
city_list(text) ==
  LET pieces == Split(Remove(Remove(text, "["), "]"), ",")
  IN [i \in 1..Len(pieces) |-> Strip(Remove(pieces[i], "'"))]

RECURSIVE ProcessLoop(_, _, _, _, _)
ProcessLoop(cities, geo, i, locations, all_coord) ==
  IF i > Len(cities) THEN [locations |-> locations, all_coord |-> all_coord]
  ELSE IF ~geo[i].ok
       THEN ProcessLoop(cities, geo, i + 1, locations, all_coord)
       ELSE ProcessLoop(cities, geo, i + 1,
                        Append(locations, Location(Str(cities[i]), geo[i].coord)),
                        Append(all_coord, geo[i].coord))

RECURSIVE ProcessLoopBreak(_, _, _, _, _)
ProcessLoopBreak(cities, geo, i, locations, all_coord) ==
  IF i > Len(cities) \/ ~geo[i].ok
  THEN [locations |-> locations, all_coord |-> all_coord]
  ELSE ProcessLoopBreak(cities, geo, i + 1,
                        Append(locations, Location(Str(cities[i]), geo[i].coord)),
                        Append(all_coord, geo[i].coord))

\* process_itinerary with "break" in place of "continue" at line 158
process_itinerary_break(text, geo) ==
  ProcessLoopBreak(city_list(text), geo, 1, <<>>, <<>>)

\* process_itinerary(text), geo being the outcomes of its geocoder calls
process_itinerary(text, geo) ==
  ProcessLoop(city_list(text), geo, 1, <<>>, <<>>)

----------------------------------------------------------------------------
(* plot_locations *)

Marker(i, location) ==
  [number |-> i, popup |-> location.name, location |-> location.coordinates]

RECURSIVE PlotLoop(_, _, _, _)
PlotLoop(locations, same_first_last, i, markers) ==
  IF i > Len(locations) THEN markers
  ELSE IF i = Len(locations) /\ same_first_last
       THEN PlotLoop(locations, same_first_last, i + 1, markers)
       ELSE PlotLoop(locations, same_first_last, i + 1,
                     Append(markers, Marker(i, locations[i])))

\* plot_locations comparing the names only at line 180
plot_locations_names(locations) ==
  PlotLoop(locations, locations[1].name = locations[Len(locations)].name,
           1, <<>>)

\* plot_locations(locations, avg_coordinates): the markers added to the map,
\* in the order they are added; locations is not empty
plot_locations(locations) ==
  PlotLoop(locations, locations[1] = locations[Len(locations)], 1, <<>>)

----------------------------------------------------------------------------
(* The cache file: DataFrame.to_csv, pandas.read_csv, json.loads *)

\* repr of a number and its inverse, the number parser of json.loads
NumRepr(n) == ToString(n)
ParseNum(tok) ==
  CHOOSE n \in UNION { {c[1], c[2]} : c \in Coords } : NumRepr(n) = tok

\* str(value) as to_csv writes it; a missing value is written as nothing
FieldText(value) == IF value = NaN THEN <<>> ELSE value.v

\* str([lat, lon])
ListRepr(coord) ==
  <<"[", NumRepr(coord[1]), ",", " ", NumRepr(coord[2]), "]">>

\* locations_df.to_csv(f"{code}.csv", index=False): one row per Location
to_csv(locations) ==
  [i \in 1..Len(locations) |->
     [name |-> FieldText(locations[i].name),
      coordinates |-> ListRepr(locations[i].coordinates)]]

\* the fields read_csv takes for missing (pandas' default na_values)
NAValues ==
  { <<>>, <<"NA">>, <<"N/A">>, <<"NaN">>, <<"nan">>, <<"NULL">>, <<"null">>,
    <<"n/a">>, <<"#N/A">> }

\* a field read_csv parses as a whole number
IsNumber(field) ==
  Len(field) = 1 /\ \E n \in 0..99 : ToString(n) = field[1]

\* pandas.read_csv on the name column: the type is inferred per column
read_names(fields) ==
  LET idx     == 1..Len(fields)
      present == { i \in idx : fields[i] \notin NAValues }
      numeric == \A i \in present : IsNumber(fields[i])
  IN [i \in idx |->
        IF i \notin present THEN NaN
        ELSE IF numeric
             THEN [t |-> IF present = idx THEN "int" ELSE "float",
                   v |-> fields[i]]
             ELSE Str(fields[i])]

\* json.loads(d["coordinates"]) on the text of a two-element list
json_loads(text) ==
  LET parts == Split(Remove(Remove(text, "["), "]"), ",")
  IN <<ParseNum(Strip(parts[1])[1]), ParseNum(Strip(parts[2])[1])>>

\* lines 257-260: the Locations rebuilt from the rows of the file
read_cache(rows) ==
  LET names == read_names([i \in 1..Len(rows) |-> rows[i].name])
  IN [i \in 1..Len(rows) |->
        Location(names[i], json_loads(rows[i].coordinates))]

\* os.path.exists(f"{code}.csv") answering False whatever is on disk
path_exists_never(fs, name) == FALSE

\* os.path.exists(f"{code}.csv")
path_exists(fs, name) == name \in DOMAIN fs

\* the test of line 274 left out: the frame is written whatever its length
should_persist_always(locations) == TRUE

\* line 274: len(locations_df) > 0
should_persist(locations) == Len(locations) > 0

\* a write that leaves an existing file alone
write_file_if_absent(fs, name, rows) ==
  IF name \in DOMAIN fs THEN fs
  ELSE [k \in DOMAIN fs \cup {name} |-> IF k = name THEN rows ELSE fs[k]]

\* writing a file creates or replaces it
write_file(fs, name, rows) ==
  [k \in DOMAIN fs \cup {name} |-> IF k = name THEN rows ELSE fs[k]]

----------------------------------------------------------------------------
(* The script, lines 216-300 *)

\* the DraggableList component before the page has sent an order back
NoValue == [set |-> FALSE, items |-> <<>>]
Value(items) == [set |-> TRUE, items |-> items]

\* the orders the user can drag the displayed list into
Orders(locations) ==
  LET n == Len(locations)
  IN { [i \in 1..n |-> locations[p[i]]] :
         p \in { q \in [1..n -> 1..n] : \A i, j \in 1..n : q[i] = q[j] => i = j } }

\* line 288: a component instance is identified by its arguments; rendered
\* with other items it is a new instance without a value
DraggableList(held, items, shown_items) ==
  IF held.set /\ items = shown_items THEN held ELSE NoValue

\* lines 295-298: plot_locations(slist) raises for None or an empty list,
\* and the except branch plots locations
plot_with_fallback(sl, locations) ==
  IF sl.set /\ sl.items # <<>> THEN plot_locations(sl.items)
  ELSE plot_locations(locations)

\* lines 219-220: the disabled flag after the initialisation of a run
init_disabled(c, d) == IF c = 0 THEN FALSE ELSE d

\* a clear handler that forgets line 241
clear_handler_keeps_count(c, d) == [count |-> c, disabled |-> FALSE]

\* lines 240-242: the session state the clear handler leaves
clear_handler(c, d) == [count |-> 0, disabled |-> FALSE]

\* what a run that skips the results block (count = 0) leaves behind
IdleRun(widgets_disabled, message) ==
  [widgets_disabled |-> widgets_disabled, message |-> message,
   view |-> "none", path |-> "none", generated |-> FALSE, geo_calls |-> 0,
   wrote |-> FALSE, locations |-> <<>>, markers |-> <<>>]

\* lines 251-300: the results block for the request req with the directory
\* fs; text and geo are what the two services answer if they are called
results_block(req, fs, held, shown_items, text, geo, widgets_disabled, message) ==
  LET name == code(req)
      hit  == path_exists(fs, name)
      locations ==
        IF hit THEN read_cache(fs[name])
        ELSE process_itinerary(text, geo).locations
      persist == ~hit /\ should_persist(locations)
      sl == IF Len(locations) = 0 THEN NoValue
            ELSE DraggableList(held, locations, shown_items)
  IN [files |-> IF persist THEN write_file(fs, name, to_csv(locations)) ELSE fs,
      slist |-> sl,
      run   |->
        [widgets_disabled |-> widgets_disabled, message |-> message,
         view |-> IF Len(locations) = 0 THEN "sorry" ELSE "map",
         path |-> IF hit THEN "hit" ELSE "miss",
         generated |-> ~hit,
         geo_calls |-> IF hit THEN 0 ELSE Len(city_list(text)),
         wrote |-> persist,
         locations |-> locations,
         markers |-> IF Len(locations) = 0 THEN <<>>
                     ELSE plot_with_fallback(sl, locations)]]

\* the words of the generated texts in the interactive model
Words == {"Lisbon", "Porto"}

Snapshot == [count |-> count, disabled |-> disabled, view |-> run.view,
             locations |-> run.locations]

\* one run of the script from line 216 to the end, entered with session
\* state (c, d), widget values req, the submit button pressed or not, and
\* the component value held
ScriptRun(c, d, req, submit, held, ev) ==
  LET d1  == init_disabled(c, d)
      msg == IF submit /\ c # 0 THEN "Clear first!" ELSE ""
  IN /\ count' = c
     /\ request' = req
     /\ event' = ev
     /\ before' = Snapshot
     /\ UNCHANGED <<session, pipe>>
     /\ IF c > 0
        THEN \E text \in (IF path_exists(files, code(req)) THEN {<<>>}
                          ELSE generate_itinerary(Words, 1, MaxCities, BOOLEAN)) :
               \E geo \in GeoAnswers(city_list(text)) :
                 LET r == results_block(req, files, held, run.locations,
                                        text, geo, d1, msg)
                 IN /\ disabled' = TRUE
                    /\ files' = r.files
                    /\ slist' = r.slist
                    /\ run' = r.run
        ELSE /\ disabled' = d1
             /\ files' = files
             /\ slist' = NoValue
             /\ run' = IdleRun(d1, msg)

\* "Generate itinerary" pressed in the idle phase: lines 233-238 set count
\* and rerun; the second run renders the page
SubmitAccepted ==
  /\ count = 0
  /\ ScriptRun(1, init_disabled(count, disabled), request, FALSE, NoValue,
               "submit")

\* "Generate itinerary" pressed in the non-idle phase: line 235, then the
\* rest of the same run
SubmitRejected ==
  /\ count # 0
  /\ ScriptRun(count, disabled, request, TRUE, slist, "submit")

\* "Clear" pressed: lines 240-243, then the rerun
Clear ==
  LET s == clear_handler(count, init_disabled(count, disabled))
  IN ScriptRun(s.count, s.disabled, request, FALSE, NoValue, "clear")

\* the user drags the displayed list into another order
Reorder ==
  /\ run.view = "map"
  /\ \E order \in Orders(run.locations) :
       ScriptRun(count, disabled, request, FALSE, Value(order), "reorder")

\* the user changes an input widget that was rendered enabled
ChangeInput ==
  /\ ~run.widgets_disabled
  /\ \E req \in Requests \ {request} :
       ScriptRun(count, disabled, req, FALSE, slist, "input")

SessionOff == [s \in {1, 2} |-> [pc |-> "off"]]
PipeOff == [pc |-> "off"]

InitScript ==
  /\ count = 0
  /\ disabled = FALSE
  /\ request = DefaultRequest
  /\ files = <<>>
  /\ run = IdleRun(FALSE, "")
  /\ slist = NoValue
  /\ event = "load"
  /\ before = [count |-> 0, disabled |-> FALSE, view |-> "none",
               locations |-> <<>>]

Init == InitScript /\ session = SessionOff /\ pipe = PipeOff

Next ==
  \/ SubmitAccepted
  \/ SubmitRejected
  \/ Clear
  \/ Reorder
  \/ ChangeInput

Spec == Init /\ [][Next]_vars

----------------------------------------------------------------------------
(* Two sessions on the same request and the same working directory.  A run  *)
(* of the results block is cut where it touches the directory: the test of  *)
(* line 253, the read of line 257, the write of line 275; the two remote    *)
(* calls of lines 269-272 lie between the test and the write.               *)

Sessions == {1, 2}

SessionIdle ==
  [pc |-> "idle", path |-> "none", locations |-> <<>>, shown |-> <<>>,
   wrote |-> FALSE]

\* line 253: os.path.exists
RaceCheck(s) ==
  /\ session[s].pc = "idle"
  /\ session' = [session EXCEPT ![s] =
       [pc |-> IF path_exists(files, code(DefaultRequest))
               THEN "hit" ELSE "miss",
        path |-> "none", locations |-> <<>>, shown |-> <<>>, wrote |-> FALSE]]
  /\ UNCHANGED <<files, uivars, pipe>>

\* lines 257-263: the hit branch reads the file
RaceRead(s) ==
  /\ session[s].pc = "hit"
  /\ session' = [session EXCEPT ![s] =
       [pc |-> "idle", path |-> "hit", locations |-> <<>>,
        shown |-> read_cache(files[code(DefaultRequest)]), wrote |-> FALSE]]
  /\ UNCHANGED <<files, uivars, pipe>>

\* lines 269-272: the miss branch calls the two services
RaceGenerate(s) ==
  /\ session[s].pc = "miss"
  /\ \E text \in generate_itinerary(Words, 1, 1, {FALSE}) :
       \E geo \in GeoAnswers(city_list(text)) :
         session' = [session EXCEPT ![s] =
           [pc |-> "generated", path |-> "none",
            locations |-> process_itinerary(text, geo).locations,
            shown |-> <<>>, wrote |-> FALSE]]
  /\ UNCHANGED <<files, uivars, pipe>>

\* lines 273-300: the miss branch writes the file and displays the result
RacePersist(s) ==
  LET locations == session[s].locations
      persist   == should_persist(locations)
  IN /\ session[s].pc = "generated"
     /\ files' = IF persist
                 THEN write_file(files, code(DefaultRequest), to_csv(locations))
                 ELSE files
     /\ session' = [session EXCEPT ![s] =
          [pc |-> "idle", path |-> "miss", locations |-> <<>>,
           shown |-> locations, wrote |-> persist]]
     /\ UNCHANGED <<uivars, pipe>>

InitRace ==
  /\ InitScript
  /\ session = [s \in Sessions |-> SessionIdle]
  /\ pipe = PipeOff

NextRace ==
  \E s \in Sessions :
    \/ RaceCheck(s)
    \/ RaceRead(s)
    \/ RaceGenerate(s)
    \/ RacePersist(s)

SpecRace == InitRace /\ [][NextRace]_vars

----------------------------------------------------------------------------
(* One request followed through the functions: the run that generates it    *)
(* (process_itinerary, the write, the display) and a later run that finds   *)
(* the file.                                                                *)

\* the words of the generated texts: a city with one entry in the
\* gazetteer, one with two, a word read_csv takes for a missing value and
\* one it takes for a number
PipeWords == {"Lisbon", "Braga", "NA", "7"}

PipeStart(text, geo) ==
  [pc |-> "generated", text |-> text, geo |-> geo, locations |-> <<>>,
   all_coord |-> <<>>, rows |-> <<>>, wrote |-> FALSE, view |-> "none",
   markers |-> <<>>, back |-> <<>>]

\* line 272
PipeProcess ==
  /\ pipe.pc = "generated"
  /\ LET r == process_itinerary(pipe.text, pipe.geo)
     IN pipe' = [pipe EXCEPT !.pc = "processed",
                             !.locations = r.locations,
                             !.all_coord = r.all_coord]
  /\ UNCHANGED <<files, uivars, session>>

\* lines 273-275
PipePersist ==
  /\ pipe.pc = "processed"
  /\ pipe' = [pipe EXCEPT
       !.pc = "persisted",
       !.wrote = should_persist(pipe.locations),
       !.rows = IF should_persist(pipe.locations)
                THEN to_csv(pipe.locations) ELSE <<>>]
  /\ UNCHANGED <<files, uivars, session>>

\* lines 277-300, the component not having sent an order yet
PipeDisplay ==
  /\ pipe.pc = "persisted"
  /\ pipe' = [pipe EXCEPT
       !.pc = "displayed",
       !.view = IF Len(pipe.locations) = 0 THEN "sorry" ELSE "map",
       !.markers = IF Len(pipe.locations) = 0 THEN <<>>
                   ELSE plot_with_fallback(NoValue, pipe.locations)]
  /\ UNCHANGED <<files, uivars, session>>

\* lines 257-260 in a later run of the same request
PipeReadBack ==
  /\ pipe.pc = "displayed"
  /\ pipe.wrote
  /\ pipe' = [pipe EXCEPT !.pc = "read", !.back = read_cache(pipe.rows)]
  /\ UNCHANGED <<files, uivars, session>>

InitPipe ==
  /\ InitScript
  /\ session = SessionOff
  /\ \E text \in generate_itinerary(PipeWords, 0, MaxPipeCities, {FALSE}) :
       \E geo \in GeoAnswers(city_list(text)) :
         pipe = PipeStart(text, geo)

NextPipe ==
  \/ PipeProcess
  \/ PipePersist
  \/ PipeDisplay
  \/ PipeReadBack

SpecPipe == InitPipe /\ [][NextPipe]_vars

----------------------------------------------------------------------------
(* Claims about the session *)

\* C1: a submit received in the non-idle phase emits "Clear first!" and
\* leaves the session as it was: count and disabled keep their values and
\* the result shown, an itinerary or the "no itinerary" outcome, is not
\* replaced by a newly generated one.
C1_RejectedSubmitChangesNothing ==
  [][ (event' = "submit" /\ count # 0) =>
        /\ run'.message = "Clear first!"
        /\ count' = count
        /\ disabled' = disabled
        /\ (run'.generated =>
              run'.view = run.view /\ run'.locations = run.locations) ]_vars

\* C2: from every reachable state the clear action can be taken, and it
\* ends in the idle state: count = 0, disabled = False, the four input
\* widgets rendered enabled and no results displayed.
C2_ClearLeadsToIdle ==
  /\ [] ENABLED Clear
  /\ [][ event' = "clear" =>
           /\ count' = 0
           /\ disabled' = FALSE
           /\ ~run'.widgets_disabled
           /\ run'.view = "none"
           /\ run'.path = "none"
           /\ run'.markers = <<>> ]_vars

C2_Witness ==
  /\ event = "clear"
  /\ before.count # 0
  /\ before.disabled
  /\ before.view = "map"
  /\ count = 0
  /\ ~run.widgets_disabled

\* C3: in every run in which the results block executes, the four input
\* widgets of that run were rendered with disabled = True.
C3_FormDisabledWhileShown ==
  run.view # "none" => run.widgets_disabled

\* C4: a miss whose location list is empty shows the "no itinerary" message
\* and writes no file, and every evaluation of a request that has no file is
\* a miss that invokes the generator.
C4_EmptyResultNotCached ==
  /\ [][ (run'.path = "miss" /\ run'.locations = <<>>) =>
           /\ run'.view = "sorry"
           /\ ~run'.wrote
           /\ files' = files
           /\ ~path_exists(files', code(request')) ]_vars
  /\ [][ (count' > 0 /\ code(request') \notin DOMAIN files) =>
           run'.path = "miss" /\ run'.generated ]_vars

C4_Witness ==
  /\ before.view = "sorry"
  /\ run.view = "sorry"
  /\ run.path = "miss"
  /\ run.generated
  /\ code(request) \notin DOMAIN files

\* C5: once a file exists for a request, every evaluation of that request
\* takes the hit path (no generator call, no geocoder call, no write), and
\* no file is ever changed or removed.
C5_CachedEntryIsKept ==
  /\ [][ (count' > 0 /\ code(request') \in DOMAIN files) =>
           /\ run'.path = "hit"
           /\ ~run'.generated
           /\ run'.geo_calls = 0
           /\ ~run'.wrote ]_vars
  /\ [][ \A name \in DOMAIN files :
           name \in DOMAIN files' /\ files'[name] = files[name] ]_vars

C5_Witness ==
  /\ event = "submit"
  /\ before.count = 0
  /\ run.path = "hit"
  /\ run.view = "map"
  /\ Cardinality(DOMAIN files) = 2

\* C10: whenever a non-empty itinerary is displayed, every Location of it is
\* drawn by at least one marker.
C10_EveryLocationDrawn ==
  run.view = "map" =>
    \A i \in 1..Len(run.locations) :
      \E k \in 1..Len(run.markers) :
        /\ run.markers[k].popup = run.locations[i].name
        /\ run.markers[k].location = run.locations[i].coordinates

----------------------------------------------------------------------------
(* Claims about the functions and the cache file *)

\* C6: an itinerary written to the cache on a miss and read back on a later
\* hit is the same sequence of (name, coordinates) pairs.
C6_CacheRoundTrip ==
  pipe.pc = "read" => pipe.back = pipe.locations

\* C7: plot_locations draws the markers in input order, numbered by
\* position; it draws len(locations) - 1 of them, all but the last, when the
\* first Location equals the last (name and coordinates), and
\* len(locations) otherwise.
C7_MarkerCount ==
  (pipe.pc \in {"displayed", "read"} /\ pipe.view = "map") =>
    LET L == pipe.locations
        M == pipe.markers
    IN /\ Len(M) = IF L[1].name = L[Len(L)].name
                      /\ L[1].coordinates = L[Len(L)].coordinates
                   THEN Len(L) - 1 ELSE Len(L)
       /\ \A k \in 1..Len(M) :
            /\ M[k].number = k
            /\ M[k].popup = L[k].name
            /\ M[k].location = L[k].coordinates

C7_Witness ==
  /\ pipe.pc = "displayed"
  /\ Len(pipe.locations) = 3
  /\ pipe.locations[1] = pipe.locations[3]
  /\ pipe.locations[2] # pipe.locations[1]
  /\ Len(pipe.markers) = 2

\* the position in the extracted list of the k-th city that resolved
Resolved(geo) == { i \in DOMAIN geo : geo[i].ok }
NthResolved(geo, k) ==
  CHOOSE i \in Resolved(geo) :
    Cardinality({ j \in Resolved(geo) : j <= i }) = k

\* C8: process_itinerary returns the extracted cities whose geocoding
\* succeeded, in their order, each with the pair its call returned, and the
\* coordinate list parallel to them; a non-empty result, complete or not,
\* is written to the cache and rendered.
C8_FailedCitiesDropped ==
  pipe.pc \notin {"off", "generated"} =>
    LET cities == city_list(pipe.text)
        L == pipe.locations
    IN /\ Len(L) = Cardinality(Resolved(pipe.geo))
       /\ Len(pipe.all_coord) = Len(L)
       /\ \A k \in 1..Len(L) :
            /\ L[k].name = Str(cities[NthResolved(pipe.geo, k)])
            /\ L[k].coordinates = pipe.geo[NthResolved(pipe.geo, k)].coord
            /\ pipe.all_coord[k] = L[k].coordinates
       /\ pipe.pc \in {"persisted", "displayed", "read"} =>
            /\ pipe.wrote = (Len(L) > 0)
            /\ Len(pipe.rows) = Len(L)
       /\ pipe.pc \in {"displayed", "read"} =>
            /\ (pipe.view = "map") = (Len(L) > 0)
            /\ (pipe.view = "sorry") = (Len(L) = 0)

C8_Witness ==
  /\ pipe.pc = "displayed"
  /\ Len(city_list(pipe.text)) = 3
  /\ Resolved(pipe.geo) = {1, 3}
  /\ Len(pipe.locations) = 2
  /\ pipe.wrote
  /\ pipe.view = "map"
  /\ Len(pipe.markers) = 2

\* C9: the test for the file and the write are separate steps and the write
\* is unconditional: a session that saw a miss writes its own non-empty
\* itinerary over whatever the file holds by then, and displays its own.
C9_LaterWriteWins ==
  [][ \A s \in Sessions :
        (session[s].pc = "generated" /\ session'[s].pc = "idle"
           /\ Len(session[s].locations) > 0) =>
          /\ files'[code(DefaultRequest)] = to_csv(session[s].locations)
          /\ session'[s].shown = session[s].locations
          /\ session'[s].wrote ]_vars

\* both sessions saw a miss, generated and wrote; the file holds what the
\* second wrote, which is not what the first displays
C9_Witness ==
  /\ \A s \in Sessions :
       /\ session[s].pc = "idle"
       /\ session[s].path = "miss"
       /\ session[s].wrote
  /\ files[code(DefaultRequest)] = to_csv(session[2].shown)
  /\ files[code(DefaultRequest)] # to_csv(session[1].shown)
  /\ read_cache(files[code(DefaultRequest)]) # session[1].shown

====
